---- MODULE Spec2Model ----
(***************************************************************************)
(* Model of the page-import backend: the content outline builder           *)
(* (import_content, src/main.py) and the two contact-link classifiers      *)
(* (import_contacts, src/main.py and src/backend/main.py).                 *)
(*                                                                         *)
(* A Python str is a sequence of one-character strings; None is the value  *)
(* None below, which is no str.  Every request keeps its own locals: each  *)
(* variable is a function of the request.                                  *)
(***************************************************************************)
EXTENDS Integers, Sequences, FiniteSets, TLC

\* ------------------------------------------------------------ bounds
\* Longest tag sequence of the exhaustively enumerated small pages.
MaxBlocks == 3
\* Longest anchor list of the enumerated contact pages.
MaxAnchors == 3
\* Longest tag sequence of the pages two concurrent requests draw from.
MaxPairBlocks == 2
\* concurrent requests to the stats and visit routes
MaxVisitors == 3

\* ------------------------------------------------- program constants
HighlightWindow == 40
MaxHighlights == 6
HighlightWords == 6
HighlightChars == 120
SubtitleWords == 4
MaxPoints == 8
MaxSections == 10

\* ------------------------------------------------------ Python values
None == <<"None">>

\* bool(s) of an Optional[str]
TruthyStr(s) == s # None /\ s # << >>

\* bool(l) of a list
TruthyList(l) == l # << >>

IsSpace(c) == c \in {" ", "\t", "\n"}

\* len(s.split()): the maximal runs of non-whitespace characters
WordCount(s) ==
  Cardinality({k \in 1..Len(s) : ~IsSpace(s[k]) /\ (k = 1 \/ IsSpace(s[k-1]))})

\* s[:n]
Take(s, n) == SubSeq(s, 1, IF Len(s) < n THEN Len(s) ELSE n)

\* s.strip()
Strip(s) ==
  LET keep == {k \in 1..Len(s) : ~IsSpace(s[k])}
  IN  IF keep = {} THEN << >>
      ELSE SubSeq(s, CHOOSE a \in keep : \A k \in keep : a <= k,
                     CHOOSE b \in keep : \A k \in keep : k <= b)

UpperLetters == <<"A","B","C","D","E","F","G","H","I","J","K","L","M","N","O","P","Q","R","S","T","U","V","W","X","Y","Z">>
LowerLetters == <<"a","b","c","d","e","f","g","h","i","j","k","l","m","n","o","p","q","r","s","t","u","v","w","x","y","z">>

LowerOf == [c \in {UpperLetters[n] : n \in 1..26} |->
              LowerLetters[CHOOSE n \in 1..26 : UpperLetters[n] = c]]

\* s.lower()
Lower(s) == [k \in 1..Len(s) |-> IF s[k] \in DOMAIN LowerOf THEN LowerOf[s[k]] ELSE s[k]]

\* s.startswith(p)
StartsWith(s, p) == Len(s) >= Len(p) /\ SubSeq(s, 1, Len(p)) = p

\* p in s
Contains(s, p) ==
  \E k \in 1..(Len(s) - Len(p) + 1) : SubSeq(s, k, k + Len(p) - 1) = p

\* index of the first c in s, 0 when there is none
IndexOf(s, c) ==
  IF \E k \in 1..Len(s) : s[k] = c
  THEN CHOOSE k \in 1..Len(s) : s[k] = c /\ \A m \in 1..(k-1) : s[m] # c
  ELSE 0

\* s.split(c, 1)[1], for an s that holds c
AfterFirst(s, c) == SubSeq(s, IndexOf(s, c) + 1, Len(s))

\* s.split(c)[0]
BeforeFirst(s, c) ==
  IF IndexOf(s, c) = 0 THEN s ELSE SubSeq(s, 1, IndexOf(s, c) - 1)

RECURSIVE Remove(_, _)
\* s.replace(old, "")
Remove(s, old) ==
  IF s = << >> THEN << >>
  ELSE IF StartsWith(s, old) THEN Remove(SubSeq(s, Len(old) + 1, Len(s)), old)
  ELSE <<Head(s)>> \o Remove(Tail(s), old)

RECURSIVE Repeat(_, _)
\* s * n
Repeat(s, n) == IF n <= 0 THEN << >> ELSE s \o Repeat(s, n - 1)

\* ------------------------------------------------------------- pages
\* What BeautifulSoup hands the handlers: the <title> string, the two meta
\* tags, the h1/h2/h3/p/li tags and the <a> tags, each list in document
\* order.  A missing tag is << >>, a present one <<content>>.
Marks == <<"a","b","c","d","e","f","g","h","i","j","k","l","m","n","o","p","q","r","s","t","u","v","w","x","y","z","A","B","C","D","E","F","G","H","I","J","K","L","M","N","O","P","Q","R","S","T","U","V","W","X","Y","Z","0","1","2","3","4","5","6","7","8","9">>

\* A text of n words for the tag at position k; every position has its own
\* first word, so that the order of the results can be told.
TextOf(k, n) == IF n = 0 THEN << >> ELSE <<Marks[k]>> \o Repeat(<<" ","w">>, n - 1)

\* Tag kinds: the tag name and the number of words of its text (0: a tag
\* whose get_text() is empty).
Kinds ==
  { [name |-> "h1", words |-> 1], [name |-> "h2", words |-> 1],
    [name |-> "h2", words |-> 0], [name |-> "h3", words |-> 1],
    [name |-> "li", words |-> 1], [name |-> "p", words |-> SubtitleWords],
    [name |-> "p", words |-> SubtitleWords + 1],
    [name |-> "p", words |-> HighlightWords + 1] }

TagsOf(ks) == [k \in 1..Len(ks) |-> [name |-> ks[k].name, text |-> TextOf(k, ks[k].words)]]

KindSeqs(n) == UNION { [1..m -> Kinds] : m \in 0..n }

\* Every tag sequence of at most MaxBlocks tags.
SmallTags == { TagsOf(ks) : ks \in KindSeqs(MaxBlocks) }

\* Long pages: a run of one kind, as long as each cap of the handler plus
\* one (or the highlight window), between at most one tag before and after.
RunLengths == {MaxHighlights + 1, MaxPoints + 1, MaxSections + 1, HighlightWindow}

LongTags ==
  { TagsOf(pre \o [k \in 1..n |-> kind] \o suf) :
      pre \in KindSeqs(1), kind \in Kinds, n \in RunLengths, suf \in KindSeqs(1) }

Services == <<"S","e","r","v","i","c","e","s">>
WeBuild == <<"W","e"," ","b","u","i","l","d"," ","g","r","e","a","t"," ","t","h","i","n","g","s"," ","f","o","r"," ","c","l","i","e","n","t","s"," ","w","o","r","l","d","w","i","d","e",".">>
Welcome == <<"W","e","l","c","o","m","e"," ","t","o"," ","o","u","r"," ","s","i","t","e">>
About == <<"A","b","o","u","t">>
Hello == <<"H","e","l","l","o">>
SixWords == <<"o","n","e"," ","t","w","o"," ","t","h","r","e","e"," ","f","o","u","r"," ","f","i","v","e"," ","s","i","x">>
Chars120 == Repeat(<<"w","o","r","d"," ">>, 23) \o <<"w","o","r","d","s">>
Chars121 == Repeat(<<"w","o","r","d"," ">>, 23) \o <<"w","o","r","d","s","!">>

\* More list items than a section keeps, then more headings than the
\* response keeps.
Crowded ==
  TagsOf([k \in 1..(MaxPoints + MaxSections + 3) |->
            IF k <= MaxPoints + 2 THEN [name |-> "li", words |-> 1]
            ELSE [name |-> "h2", words |-> 1]])

\* A heading, list items up to the end of the highlight window, and a
\* heading right after the window.
LateHeading ==
  TagsOf([k \in 1..(HighlightWindow + 1) |->
            IF k = 1 THEN [name |-> "h1", words |-> 1]
            ELSE IF k <= HighlightWindow THEN [name |-> "li", words |-> 1]
            ELSE [name |-> "h2", words |-> 1]])

\* The documents the specification names, and the two above.
ScenarioTags ==
  { Crowded, LateHeading, << [name |-> "h2", text |-> Services], [name |-> "p", text |-> WeBuild],
       [name |-> "li", text |-> <<"F","a","s","t">>], [name |-> "li", text |-> <<"R","e","l","i","a","b","l","e">>] >>,
    << [name |-> "p", text |-> Welcome] >>,
    << [name |-> "h2", text |-> About], [name |-> "p", text |-> Hello],
       [name |-> "p", text |-> WeBuild] >>,
    << [name |-> "li", text |-> <<"F","a","s","t">>], [name |-> "p", text |-> Hello],
       [name |-> "li", text |-> <<"R","e","l","i","a","b","l","e">>], [name |-> "h3", text |-> About] >>,
    << [name |-> "h1", text |-> Welcome], [name |-> "p", text |-> SixWords],
       [name |-> "p", text |-> Chars120], [name |-> "p", text |-> Chars121] >>,
    << [name |-> "h2", text |-> Chars121], [name |-> "p", text |-> Chars120],
       [name |-> "p", text |-> Chars121] >> }

NoTag == << >>

\* <head>: the title string and the content of <meta name="description">
\* and <meta property="og:description">.
Heads ==
  { [title |-> None, description |-> NoTag, og |-> <<<<" ","o","g"," ">>>>],
    [title |-> <<" ","A","c","m","e"," ">>, description |-> <<<<" ","A","b","o","u","t"," ","A","c","m","e"," ">>>>, og |-> <<<<"o","g">>>>],
    [title |-> << >>, description |-> <<None>>, og |-> <<<<"o","g">>>>] }

PlainHead == [title |-> <<"A","c","m","e">>, description |-> NoTag, og |-> NoTag]

ContentPage(head, tags) ==
  [title |-> head.title, description |-> head.description, og |-> head.og,
   tags |-> tags, anchors |-> << >>]

ContentPages ==
  { ContentPage(h, t) : h \in Heads, t \in SmallTags }
    \cup { ContentPage(PlainHead, t) : t \in LongTags \cup ScenarioTags }

\* An <a> tag is << >> without an href attribute, <<href>> with one.
Hrefs ==
  { <<"h","t","t","p","s",":","/","/","i","n","s","t","a","g","r","a","m",".","c","o","m","/","x">>, <<"h","t","t","p","s",":","/","/","i","n","s","t","a","g","r","a","m",".","c","o","m","/","y">>,
    <<"/","/","i","n","s","t","a","g","r","a","m",".","c","o","m","/","z">>, <<"h","t","t","p","s",":","/","/","x",".","c","o","m","/","s","h","a","r","e","?","u","=","i","n","s","t","a","g","r","a","m",".","c","o","m","/","a">>,
    <<"h","t","t","p","s",":","/","/","w","a",".","m","e","/","1","2","3">>, <<"m","a","i","l","t","o",":","a","@","b",".","c","o","m","?","s","u","b","j","e","c","t","=","h","i">>, <<"M","a","i","l","t","o",":","c","@","d",".","c","o","m">>,
    <<"m","a","i","l","t","o",":","e","@","f",".","o","r","g">>, <<"h","t","t","p","s",":","/","/","w","h","a","t","s","a","p","p",".","e","x","a","m","p","l","e">>, << >> }

Anchors == { << >> } \cup { <<h>> : h \in Hrefs }

ContactPage(anchors) ==
  [title |-> None, description |-> NoTag, og |-> NoTag, tags |-> << >>, anchors |-> anchors]

ContactPages == { ContactPage(as) : as \in UNION { [1..n -> Anchors] : n \in 0..MaxAnchors } }

\* ---------------------------------------------------------- upstream
\* What the server behind the requested URL does: requests.get raises, or
\* returns a response with a status code and a body.
Exceptions == {"ConnectionError", "ReadTimeout"}

\* Final status codes other than 200 (requests follows redirects itself).
OtherStatuses == {201, 300, 399, 400, 404, 500, 599}

Raised(e) == [kind |-> "exception", cause |-> e, status_code |-> 0, page |-> << >>]

Answered(code, page) ==
  [kind |-> "response", cause |-> "HTTPError", status_code |-> code, page |-> <<page>>]

NoRequest == [kind |-> "none", cause |-> "", status_code |-> 0, page |-> << >>]

ContentUpstreams ==
  { Raised(e) : e \in Exceptions }
    \cup { Answered(200, pg) : pg \in ContentPages }
    \cup { Answered(c, ContentPage(PlainHead, t)) : c \in OtherStatuses, t \in ScenarioTags }

ContactUpstreams ==
  { Raised(e) : e \in Exceptions }
    \cup { Answered(200, pg) : pg \in ContactPages }
    \cup { Answered(c, ContactPage(<< <<h>> >>)) : c \in OtherStatuses, h \in Hrefs }

\* resp.raise_for_status()
RaisesForStatus(code) == 400 <= code /\ code < 600

FetchRaises_GetOnly(u) == u.kind = "exception"

\* requests.get(...) followed by resp.raise_for_status() raises
FetchRaises(u) == u.kind = "exception" \/ RaisesForStatus(u.status_code)

\* ------------------------------------------------------------- state
Reqs == {1, 2}

VARIABLES
  pc,           \* where each request's handler stands
  endpoint,     \* the route each request came in on
  upstream,     \* what the server behind each request's URL does
  gets,         \* requests.get calls made for each request
  resp,         \* the handler's resp: << >> before the fetch, <<status>> after
  title, description, blocks, scan, highlights,
  walk, current, sections,
  links, instagram, whatsapp, email, xlink,
  anchors, seen, data,
  response,     \* << >> until the request is answered, then <<answer>>
  db,           \* src/main.py's db: "None" or "Database"
  reachable,    \* whether the store's server answers; if not, its operations raise
  sitestat,     \* the document {"name": SITE_KEY} of collection sitestat: << >> or <<doc>>
  visit,        \* the documents of collection visit, in insertion order
  vpc,          \* where each stats/visit request's handler stands
  call,         \* the route, payload and user-agent of each stats/visit request
  res,          \* get_stats's doc and add_visit's res
  total,        \* the backend stats handler's total
  reply         \* << >> until the stats/visit request is answered, then <<answer>>

vars == <<pc, endpoint, upstream, gets, resp, title, description, blocks, scan,
          highlights, walk, current, sections, links, instagram, whatsapp,
          email, xlink, anchors, seen, data, response,
          db, reachable, sitestat, visit, vpc, call, res, total, reply>>

storeVars == <<db, reachable, sitestat, visit, vpc, call, res, total, reply>>

importVars == <<pc, endpoint, upstream, gets, resp, title, description, blocks, scan,
                highlights, walk, current, sections, links, instagram, whatsapp,
                email, xlink, anchors, seen, data, response>>

contactLocals == <<links, instagram, whatsapp, email, xlink>>

backendLocals == <<anchors, seen, data>>

contentLocals == <<title, description, blocks, scan, highlights, walk, current, sections>>

\* raise HTTPException(status_code=400, detail=f"{prefix}{e}")
HTTPException(status, prefix, u) ==
  [status |-> status, detail |-> <<prefix, u.cause, u.status_code>>, body |-> << >>]

Ok(body) == [status |-> 200, detail |-> << >>, body |-> <<body>>]

\* ------------------------------------------------------- the fetch
\* try: resp = requests.get(url, timeout=...); resp.raise_for_status()
\* except Exception as e: raise HTTPException(status_code=400, detail=f"{prefix}{e}")
Fetch(r, prefix) ==
  /\ pc[r] = "fetch"
  /\ gets' = [gets EXCEPT ![r] = @ + 1]
  /\ IF FetchRaises(upstream[r])
     THEN /\ response' = [response EXCEPT ![r] = <<HTTPException(400, prefix, upstream[r])>>]
          /\ pc' = [pc EXCEPT ![r] = "done"]
          /\ UNCHANGED resp
     ELSE /\ resp' = [resp EXCEPT ![r] = <<upstream[r].status_code>>]
          /\ pc' = [pc EXCEPT ![r] = "parse"]
          /\ UNCHANGED response
  /\ UNCHANGED storeVars
  /\ UNCHANGED <<endpoint, upstream, contentLocals, contactLocals, backendLocals>>

\* --------------------------------------------------- import_content
ImportContent_Fetch(r) ==
  endpoint[r] = "content" /\ Fetch(r, "Failed to fetch URL: ")

\* title = soup.title.string.strip() if soup.title and soup.title.string
PageTitle(page) == IF TruthyStr(page.title) THEN Strip(page.title) ELSE None

\* desc_tag = soup.find(name=description) or soup.find(property=og:description);
\* a found tag is truthy whatever it holds
DescTag(page) == IF page.description # NoTag THEN page.description ELSE page.og

PageDescription(page) ==
  LET desc_tag == DescTag(page)
  IN  IF desc_tag # NoTag /\ TruthyStr(desc_tag[1]) THEN Strip(desc_tag[1]) ELSE None

\* the blocks, were tags with an empty text kept
CollectBlocks_KeepEmpty(tags) ==
  [k \in 1..Len(tags) |-> [tag |-> tags[k].name, text |-> tags[k].text]]

\* the loop over soup.find_all([...]) that skips the tags without text
CollectBlocks(tags) ==
  LET kept == SelectSeq(tags, LAMBDA t : t.text # << >>)
  IN  [k \in 1..Len(kept) |-> [tag |-> kept[k].name, text |-> kept[k].text]]

ImportContent_Parse(r) ==
  /\ pc[r] = "parse" /\ endpoint[r] = "content"
  /\ LET page == upstream[r].page[1]
     IN  /\ title' = [title EXCEPT ![r] = PageTitle(page)]
         /\ description' = [description EXCEPT ![r] = PageDescription(page)]
         /\ blocks' = [blocks EXCEPT ![r] = CollectBlocks(page.tags)]
  /\ highlights' = [highlights EXCEPT ![r] = << >>]
  /\ scan' = [scan EXCEPT ![r] = 0]
  /\ pc' = [pc EXCEPT ![r] = "highlights"]
  /\ UNCHANGED storeVars
  /\ UNCHANGED <<endpoint, upstream, gets, resp, walk, current, sections, response,
                 contactLocals, backendLocals>>

Ellipsis == <<"U+2026">>

\* the highlight of a block, were the ellipsis added from 120 characters on
HighlightOf_EllipsisAt120(b) ==
  IF b.tag \in {"h1", "h2"}
  THEN << [title |-> b.text, text |-> None] >>
  ELSE IF b.tag = "p" /\ WordCount(b.text) > HighlightWords
  THEN << [title |-> Take(b.text, HighlightChars)
                       \o (IF Len(b.text) >= HighlightChars THEN Ellipsis ELSE << >>),
           text |-> None] >>
  ELSE << >>

\* what one block adds to highlights: nothing, or one entry
HighlightOf(b) ==
  IF b.tag \in {"h1", "h2"}
  THEN << [title |-> b.text, text |-> None] >>
  ELSE IF b.tag = "p" /\ WordCount(b.text) > HighlightWords
  THEN << [title |-> Take(b.text, HighlightChars)
                       \o (IF Len(b.text) > HighlightChars THEN Ellipsis ELSE << >>),
           text |-> None] >>
  ELSE << >>

Window_Whole(bs) == bs

\* blocks[:40]
Window(bs) == Take(bs, HighlightWindow)

\* if len(highlights) >= 6: break
HighlightsFull(hs) == Len(hs) >= MaxHighlights

\* one iteration of: for b in blocks[:40]
ImportContent_HighlightStep(r) ==
  /\ pc[r] = "highlights"
  /\ scan[r] < Len(Window(blocks[r]))
  /\ LET hs == highlights[r] \o HighlightOf(Window(blocks[r])[scan[r] + 1])
     IN  /\ highlights' = [highlights EXCEPT ![r] = hs]
         /\ pc' = [pc EXCEPT ![r] = IF HighlightsFull(hs) THEN "sections" ELSE "highlights"]
  /\ scan' = [scan EXCEPT ![r] = @ + 1]
  /\ UNCHANGED storeVars
  /\ UNCHANGED <<endpoint, upstream, gets, resp, title, description, blocks,
                 walk, current, sections, response,
                 contactLocals, backendLocals>>

\* the loop runs out of blocks
ImportContent_HighlightEnd(r) ==
  /\ pc[r] = "highlights"
  /\ scan[r] >= Len(Window(blocks[r]))
  /\ pc' = [pc EXCEPT ![r] = "sections"]
  /\ UNCHANGED storeVars
  /\ UNCHANGED <<endpoint, upstream, gets, resp, contentLocals, response,
                 contactLocals, backendLocals>>

\* current: << >> is None, <<s>> a ContentSection
NoCurrent == << >>

ContentSection(t, st, pts) == [title |-> t, subtitle |-> st, points |-> pts]

NonEmpty_PointsOnly(cur) == cur # NoCurrent /\ TruthyList(cur[1].points)

\* current and (current.title or current.subtitle or current.points)
NonEmpty(cur) ==
  /\ cur # NoCurrent
  /\ (TruthyStr(cur[1].title) \/ TruthyStr(cur[1].subtitle) \/ TruthyList(cur[1].points))

\* (points or []).append(text): an empty points is falsy, the text then goes
\* to the fresh list and points stays empty
OrAppend(points, text) == IF TruthyList(points) THEN Append(points, text) ELSE points

\* current = ContentSection(title=text, subtitle=None, points=[])
FromHeading(text) == << ContentSection(text, None, << >>) >>

FromParagraph_AsPoint(text) == << ContentSection(<<"H","i","g","h","l","i","g","h","t","s">>, None, <<text>>) >>

\* current = ContentSection(title=text, points=[]); subtitle defaults to None
FromParagraph(text) == << ContentSection(text, None, << >>) >>

FromListItem_NoPoint(text) == << ContentSection(<<"H","i","g","h","l","i","g","h","t","s">>, None, << >>) >>

\* current = ContentSection(title='Highlights', points=[text])
FromListItem(text) == << ContentSection(<<"H","i","g","h","l","i","g","h","t","s">>, None, <<text>>) >>

\* current.subtitle is None and len(text.split()) > 4 and (not current.points)
TakesSubtitle(s, text) ==
  s.subtitle = None /\ WordCount(text) > SubtitleWords /\ ~TruthyList(s.points)

\* the section loop, were an h1 to open a section as h2 and h3 do
WalkCurrent_H1Opens(cur, b) ==
  IF b.tag \in {"h1", "h2", "h3"}
  THEN FromHeading(b.text)
  ELSE IF b.tag = "p"
  THEN IF cur = NoCurrent
       THEN FromParagraph(b.text)
       ELSE IF TakesSubtitle(cur[1], b.text)
       THEN << [cur[1] EXCEPT !.subtitle = b.text] >>
       ELSE << [cur[1] EXCEPT !.points = OrAppend(@, b.text)] >>
  ELSE IF b.tag = "li"
  THEN IF cur = NoCurrent
       THEN FromListItem(b.text)
       ELSE << [cur[1] EXCEPT !.points = OrAppend(@, b.text)] >>
  ELSE cur

\* current after one block of the section loop
WalkCurrent(cur, b) ==
  IF b.tag \in {"h2", "h3"}
  THEN FromHeading(b.text)
  ELSE IF b.tag = "p"
  THEN IF cur = NoCurrent
       THEN FromParagraph(b.text)
       ELSE IF TakesSubtitle(cur[1], b.text)
       THEN << [cur[1] EXCEPT !.subtitle = b.text] >>
       ELSE << [cur[1] EXCEPT !.points = OrAppend(@, b.text)] >>
  ELSE IF b.tag = "li"
  THEN IF cur = NoCurrent
       THEN FromListItem(b.text)
       ELSE << [cur[1] EXCEPT !.points = OrAppend(@, b.text)] >>
  ELSE cur

\* sections after one block of the section loop
WalkSections(secs, cur, b) ==
  IF b.tag \in {"h2", "h3"} /\ NonEmpty(cur) THEN Append(secs, cur[1]) ELSE secs

ImportContent_SectionStep(r) ==
  /\ pc[r] = "sections"
  /\ walk[r] < Len(blocks[r])
  /\ LET b == blocks[r][walk[r] + 1]
     IN  /\ sections' = [sections EXCEPT ![r] = WalkSections(@, current[r], b)]
         /\ current' = [current EXCEPT ![r] = WalkCurrent(@, b)]
  /\ walk' = [walk EXCEPT ![r] = @ + 1]
  /\ UNCHANGED storeVars
  /\ UNCHANGED <<pc, endpoint, upstream, gets, resp, title, description, blocks,
                 scan, highlights, response, contactLocals, backendLocals>>

ImportContent_SectionEnd_Shared(r) ==
  /\ pc[r] = "sections"
  /\ walk[r] >= Len(blocks[r])
  /\ sections' = [sections EXCEPT ![r] =
                    (IF r = 1 THEN << >> ELSE sections[1]) \o
                    (IF NonEmpty(current[r]) THEN Append(@, current[r][1]) ELSE @)]
  /\ pc' = [pc EXCEPT ![r] = "limit"]
  /\ UNCHANGED storeVars
  /\ UNCHANGED <<endpoint, upstream, gets, resp, title, description, blocks,
                 scan, highlights, walk, current, response, contactLocals, backendLocals>>

\* after the loop: the last section is appended
ImportContent_SectionEnd(r) ==
  /\ pc[r] = "sections"
  /\ walk[r] >= Len(blocks[r])
  /\ sections' = [sections EXCEPT ![r] =
                    IF NonEmpty(current[r]) THEN Append(@, current[r][1]) ELSE @]
  /\ pc' = [pc EXCEPT ![r] = "limit"]
  /\ UNCHANGED storeVars
  /\ UNCHANGED <<endpoint, upstream, gets, resp, title, description, blocks,
                 scan, highlights, walk, current, response, contactLocals, backendLocals>>

\* if s.points: s.points = s.points[:8]
LimitPoints(s) ==
  IF TruthyList(s.points) THEN [s EXCEPT !.points = Take(@, MaxPoints)] ELSE s

ImportContent_Limit(r) ==
  /\ pc[r] = "limit"
  /\ sections' = [sections EXCEPT ![r] = [k \in 1..Len(@) |-> LimitPoints(@[k])]]
  /\ pc' = [pc EXCEPT ![r] = "return"]
  /\ UNCHANGED storeVars
  /\ UNCHANGED <<endpoint, upstream, gets, resp, title, description, blocks,
                 scan, highlights, walk, current, response, contactLocals, backendLocals>>

LimitSections_NoCap(secs) == secs

\* sections[:10]
LimitSections(secs) == Take(secs, MaxSections)

ContentResponse(t, d, hs, secs) ==
  [title |-> t, description |-> d, highlights |-> hs, sections |-> secs]

ImportContent_Return(r) ==
  /\ pc[r] = "return" /\ endpoint[r] = "content"
  /\ response' = [response EXCEPT ![r] =
       <<Ok(ContentResponse(title[r], description[r], highlights[r],
                            LimitSections(sections[r])))>>]
  /\ pc' = [pc EXCEPT ![r] = "done"]
  /\ UNCHANGED storeVars
  /\ UNCHANGED <<endpoint, upstream, gets, resp, contentLocals, contactLocals, backendLocals>>

ImportContent(r) ==
  \/ ImportContent_Fetch(r)
  \/ ImportContent_Parse(r)
  \/ ImportContent_HighlightStep(r)
  \/ ImportContent_HighlightEnd(r)
  \/ ImportContent_SectionStep(r)
  \/ ImportContent_SectionEnd(r)
  \/ ImportContent_Limit(r)
  \/ ImportContent_Return(r)

\* ------------------------------------- import_contacts (src/main.py)
ImportContacts_Fetch(r) ==
  endpoint[r] = "contacts" /\ Fetch(r, "Failed to fetch URL: ")

\* [a.get('href') for a in soup.find_all('a') if a.get('href')]
HrefsOf(as) ==
  LET kept == SelectSeq(as, LAMBDA a : a # << >> /\ a[1] # << >>)
  IN  [k \in 1..Len(kept) |-> kept[k][1]]

ImportContacts_Parse(r) ==
  /\ pc[r] = "parse" /\ endpoint[r] = "contacts"
  /\ links' = [links EXCEPT ![r] = HrefsOf(upstream[r].page[1].anchors)]
  /\ pc' = [pc EXCEPT ![r] = "classify"]
  /\ UNCHANGED storeVars
  /\ UNCHANGED <<endpoint, upstream, gets, resp, contentLocals, instagram, whatsapp,
                 email, xlink, backendLocals, response>>

\* re.search(r"instagram\.com/", l, re.I)
IsInstagram(l) == Contains(Lower(l), <<"i","n","s","t","a","g","r","a","m",".","c","o","m","/">>)

\* re.search(r"wa\.me/|api\.whatsapp\.com/|whatsapp\.com/send", l, re.I)
IsWhatsapp(l) ==
  LET low == Lower(l)
  IN  \/ Contains(low, <<"w","a",".","m","e","/">>)
      \/ Contains(low, <<"a","p","i",".","w","h","a","t","s","a","p","p",".","c","o","m","/">>)
      \/ Contains(low, <<"w","h","a","t","s","a","p","p",".","c","o","m","/","s","e","n","d">>)

\* l.lower().startswith('mailto:')
IsMailto(l) == StartsWith(Lower(l), <<"m","a","i","l","t","o",":">>)

\* re.search(r"twitter\.com/|x\.com/", l, re.I)
IsX(l) ==
  LET low == Lower(l)
  IN  Contains(low, <<"t","w","i","t","t","e","r",".","c","o","m","/">>) \/ Contains(low, <<"x",".","c","o","m","/">>)

FirstOf_Last(ls, hit) ==
  IF hit = {} THEN None ELSE ls[CHOOSE k \in hit : \A m \in hit : m <= k]

\* next((l for l in ls if <test>), None), hit being the positions that pass
FirstOf(ls, hit) ==
  IF hit = {} THEN None ELSE ls[CHOOSE k \in hit : \A m \in hit : k <= m]

ImportContacts_Classify(r) ==
  /\ pc[r] = "classify"
  /\ LET ls == links[r]
     IN  /\ instagram' = [instagram EXCEPT ![r] =
                            FirstOf(ls, {k \in 1..Len(ls) : IsInstagram(ls[k])})]
         /\ whatsapp' = [whatsapp EXCEPT ![r] =
                           FirstOf(ls, {k \in 1..Len(ls) : IsWhatsapp(ls[k])})]
         /\ email' = [email EXCEPT ![r] =
                        FirstOf(ls, {k \in 1..Len(ls) : IsMailto(ls[k])})]
         /\ xlink' = [xlink EXCEPT ![r] =
                        FirstOf(ls, {k \in 1..Len(ls) : IsX(ls[k])})]
  /\ pc' = [pc EXCEPT ![r] = "normalize"]
  /\ UNCHANGED storeVars
  /\ UNCHANGED <<endpoint, upstream, gets, resp, contentLocals, links, backendLocals,
                 response>>

\* if email and email.lower().startswith('mailto:'):
\*     email = email.split(':', 1)[1].split('?')[0]
NormalizeEmail(e) ==
  IF TruthyStr(e) /\ StartsWith(Lower(e), <<"m","a","i","l","t","o",":">>)
  THEN BeforeFirst(AfterFirst(e, ":"), "?")
  ELSE e

ImportContacts_Normalize(r) ==
  /\ pc[r] = "normalize"
  /\ email' = [email EXCEPT ![r] = NormalizeEmail(@)]
  /\ pc' = [pc EXCEPT ![r] = "return"]
  /\ UNCHANGED storeVars
  /\ UNCHANGED <<endpoint, upstream, gets, resp, contentLocals, links, instagram,
                 whatsapp, xlink, backendLocals, response>>

ContactSet(ig, wa, em, x) == [instagram |-> ig, whatsapp |-> wa, email |-> em, x |-> x]

\* ContactsResponse: four Optional[str] fields, which every str and None fit
ImportContacts_Return(r) ==
  /\ pc[r] = "return" /\ endpoint[r] = "contacts"
  /\ response' = [response EXCEPT ![r] =
       <<Ok(ContactSet(instagram[r], whatsapp[r], email[r], xlink[r]))>>]
  /\ pc' = [pc EXCEPT ![r] = "done"]
  /\ UNCHANGED storeVars
  /\ UNCHANGED <<endpoint, upstream, gets, resp, contentLocals, contactLocals, backendLocals>>

ImportContacts(r) ==
  \/ ImportContacts_Fetch(r)
  \/ ImportContacts_Parse(r)
  \/ ImportContacts_Classify(r)
  \/ ImportContacts_Normalize(r)
  \/ ImportContacts_Return(r)

\* ------------------------------ import_contacts (src/backend/main.py)
BackendContacts_Fetch(r) ==
  endpoint[r] = "backend" /\ Fetch(r, "Failed to fetch source: ")

\* soup.find_all("a", href=True): the anchors that have an href, empty or not
WithHref(as) ==
  LET kept == SelectSeq(as, LAMBDA a : a # << >>)
  IN  [k \in 1..Len(kept) |-> kept[k][1]]

\* data: a field is << >> while its key is not in the dict, <<value>> after
NoData == [instagram |-> << >>, whatsapp |-> << >>, email |-> << >>, x |-> << >>]

BackendContacts_Parse(r) ==
  /\ pc[r] = "parse" /\ endpoint[r] = "backend"
  /\ anchors' = [anchors EXCEPT ![r] = WithHref(upstream[r].page[1].anchors)]
  /\ data' = [data EXCEPT ![r] = NoData]
  /\ seen' = [seen EXCEPT ![r] = 0]
  /\ pc' = [pc EXCEPT ![r] = "anchors"]
  /\ UNCHANGED storeVars
  /\ UNCHANGED <<endpoint, upstream, gets, resp, contentLocals, contactLocals, response>>

\* "instagram.com" in low
LooksInstagram(low) == Contains(low, <<"i","n","s","t","a","g","r","a","m",".","c","o","m">>)

\* "wa.me" in low or "whatsapp" in low
LooksWhatsapp(low) == Contains(low, <<"w","a",".","m","e">>) \/ Contains(low, <<"w","h","a","t","s","a","p","p">>)

\* href.startswith("mailto:")
LooksMailto(href) == StartsWith(href, <<"m","a","i","l","t","o",":">>)

\* "twitter.com" in low or "x.com" in low
LooksX(low) == Contains(low, <<"t","w","i","t","t","e","r",".","c","o","m">>) \/ Contains(low, <<"x",".","c","o","m">>)

\* if <match> and <key> not in data: data[<key>] = value
SetOnce(old, match, value) == IF match /\ old = << >> THEN <<value>> ELSE old

\* the body of: for a in soup.find_all("a", href=True)
ScanAnchor(d, raw) ==
  LET href == Strip(raw)
      low == Lower(href)
  IN  [instagram |-> SetOnce(d.instagram, LooksInstagram(low), href),
       whatsapp |-> SetOnce(d.whatsapp, LooksWhatsapp(low), href),
       email |-> SetOnce(d.email, LooksMailto(href), Remove(href, <<"m","a","i","l","t","o",":">>)),
       x |-> SetOnce(d.x, LooksX(low), href)]

BackendContacts_Step(r) ==
  /\ pc[r] = "anchors"
  /\ seen[r] < Len(anchors[r])
  /\ data' = [data EXCEPT ![r] = ScanAnchor(@, anchors[r][seen[r] + 1])]
  /\ seen' = [seen EXCEPT ![r] = @ + 1]
  /\ UNCHANGED storeVars
  /\ UNCHANGED <<pc, endpoint, upstream, gets, resp, contentLocals, contactLocals,
                 anchors, response>>

BackendContacts_End(r) ==
  /\ pc[r] = "anchors"
  /\ seen[r] >= Len(anchors[r])
  /\ pc' = [pc EXCEPT ![r] = "return"]
  /\ UNCHANGED storeVars
  /\ UNCHANGED <<endpoint, upstream, gets, resp, contentLocals, contactLocals,
                 backendLocals, response>>

Letters == {UpperLetters[n] : n \in 1..26} \cup {LowerLetters[n] : n \in 1..26}

Digits == {"0", "1", "2", "3", "4", "5", "6", "7", "8", "9"}

\* HttpUrl: an http or https scheme, "://" and a host
ValidHttpUrl(s) ==
  LET low == Lower(s)
      rest == IF StartsWith(low, <<"h","t","t","p","s",":","/","/">>) THEN SubSeq(s, 9, Len(s))
              ELSE IF StartsWith(low, <<"h","t","t","p",":","/","/">>) THEN SubSeq(s, 8, Len(s))
              ELSE << >>
  IN  /\ rest # << >>
      /\ rest[1] \in Letters \cup Digits
      /\ \A k \in 1..Len(s) : ~IsSpace(s[k])

\* EmailStr: local@domain, the domain made of dotted labels
ValidEmail(s) ==
  LET at == IndexOf(s, "@")
      local == SubSeq(s, 1, at - 1)
      domain == SubSeq(s, at + 1, Len(s))
  IN  /\ at > 1
      /\ \A k \in 1..Len(local) : ~IsSpace(local[k]) /\ local[k] # ":"
      /\ domain # << >>
      /\ \A k \in 1..Len(domain) : domain[k] \in Letters \cup Digits \cup {"-", "."}
      /\ \E k \in 2..(Len(domain) - 1) : domain[k] = "."

\* the response_model validation of the returned dict against Contacts
ValidContacts(d) ==
  /\ d.instagram # << >> => ValidHttpUrl(d.instagram[1])
  /\ d.email # << >> => ValidEmail(d.email[1])
  /\ d.x # << >> => ValidHttpUrl(d.x[1])

\* a key that is not in the dict is the field's default, None
Field(f) == IF f = << >> THEN None ELSE f[1]

ResponseValidationError ==
  [status |-> 500, detail |-> <<"ResponseValidationError", "", 0>>, body |-> << >>]

BackendContacts_Return(r) ==
  /\ pc[r] = "return" /\ endpoint[r] = "backend"
  /\ response' = [response EXCEPT ![r] =
       IF ValidContacts(data[r])
       THEN <<Ok(ContactSet(Field(data[r].instagram), Field(data[r].whatsapp),
                            Field(data[r].email), Field(data[r].x)))>>
       ELSE <<ResponseValidationError>>]
  /\ pc' = [pc EXCEPT ![r] = "done"]
  /\ UNCHANGED storeVars
  /\ UNCHANGED <<endpoint, upstream, gets, resp, contentLocals, contactLocals, backendLocals>>

BackendContacts(r) ==
  \/ BackendContacts_Fetch(r)
  \/ BackendContacts_Parse(r)
  \/ BackendContacts_Step(r)
  \/ BackendContacts_End(r)
  \/ BackendContacts_Return(r)

\* --------------------------------------------------- the document store
Visitors == 1..MaxVisitors

SITE_KEY == "beequest"

\* find_one's result when no document matches; a document is <<doc>>, and
\* its field total_visits << >> when missing, <<n>> when set
NoDoc == << >>

SiteStat(field) == << [name |-> SITE_KEY, total_visits |-> field] >>

\* doc.get("total_visits", 0)
GetTotalVisits(doc) == IF doc.total_visits = << >> THEN 0 ELSE doc.total_visits[1]

\* int(res.get("total_visits", 0)) if res else 0
TotalOf(found) == IF found = NoDoc THEN 0 ELSE GetTotalVisits(found[1])

\* the document, were the update to set total_visits to 1 ($set for $inc)
IncTotalVisits_Set(doc) == SiteStat(<<1>>)

\* the document after find_one_and_update({"name": SITE_KEY},
\* {"$inc": {"total_visits": 1}}, upsert=True): a missing document is
\* inserted, a missing field counts as 0
IncTotalVisits(doc) ==
  IF doc = NoDoc THEN SiteStat(<<1>>)
  ELSE << [doc[1] EXCEPT !.total_visits = <<GetTotalVisits(doc[1]) + 1>>] >>

\* {"name": SITE_KEY, "total_visits": n}
StatResponse(n) == [name |-> SITE_KEY, total_visits |-> n]

\* an exception no handler catches: the framework answers 500
InternalServerError ==
  [status |-> 500, detail |-> <<"ServerSelectionTimeoutError", "", 0>>, body |-> << >>]

\* the Visit payload of POST /api/visit: << >> is no payload, <<path>> one
NoPayload == << >>

\* The stats and visit requests a client can make, on either revision.
Calls ==
  { [route |-> rt, payload |-> NoPayload, ua |-> None] : rt \in {"get_stats", "add_visit", "stats"} }
    \cup { [route |-> "track_visit", payload |-> NoPayload, ua |-> None],
           [route |-> "track_visit", payload |-> << << >> >>, ua |-> <<"c","u","r","l">>],
           [route |-> "track_visit", payload |-> << <<"/","a","b","o","u","t">> >>, ua |-> <<"c","u","r","l">>] }

NoCall == [route |-> "none", payload |-> NoPayload, ua |-> None]

Answer(v, a) ==
  /\ reply' = [reply EXCEPT ![v] = <<a>>]
  /\ vpc' = [vpc EXCEPT ![v] = "done"]

\* ----------------------------------------------- get_stats (src/main.py)
\* if db is None: return the default; doc = db[COLLECTION].find_one(...)
GetStats_Find(v) ==
  /\ vpc[v] = "start" /\ call[v].route = "get_stats"
  /\ IF db = "None"
     THEN Answer(v, Ok(StatResponse(0))) /\ UNCHANGED res
     ELSE IF ~reachable
     THEN Answer(v, InternalServerError) /\ UNCHANGED res
     ELSE /\ res' = [res EXCEPT ![v] = sitestat]
          /\ vpc' = [vpc EXCEPT ![v] = "return"]
          /\ UNCHANGED reply
  /\ UNCHANGED <<db, reachable, sitestat, visit, call, total>>
  /\ UNCHANGED importVars

GetStats_Return(v) ==
  /\ vpc[v] = "return" /\ call[v].route = "get_stats"
  /\ Answer(v, Ok(StatResponse(TotalOf(res[v]))))
  /\ UNCHANGED <<db, reachable, sitestat, visit, call, res, total>>
  /\ UNCHANGED importVars

GetStats(v) == GetStats_Find(v) \/ GetStats_Return(v)

\* ----------------------------------------------- add_visit (src/main.py)
\* if db is None: return the default; res = find_one_and_update(...,
\* return_document=True): the store increments and hands back the document
\* as it is after the update, in one operation
AddVisit_Update(v) ==
  /\ vpc[v] = "start" /\ call[v].route = "add_visit"
  /\ IF db = "None"
     THEN Answer(v, Ok(StatResponse(0))) /\ UNCHANGED <<sitestat, res>>
     ELSE IF ~reachable
     THEN Answer(v, InternalServerError) /\ UNCHANGED <<sitestat, res>>
     ELSE /\ sitestat' = IncTotalVisits(sitestat)
          /\ res' = [res EXCEPT ![v] = IncTotalVisits(sitestat)]
          /\ vpc' = [vpc EXCEPT ![v] = "return"]
          /\ UNCHANGED reply
  /\ UNCHANGED <<db, reachable, visit, call, total>>
  /\ UNCHANGED importVars

\* if not res: res = db[COLLECTION].find_one(...); then the return
AddVisit_Return(v) ==
  /\ vpc[v] = "return" /\ call[v].route = "add_visit"
  /\ LET again == IF res[v] = NoDoc THEN sitestat ELSE res[v]
     IN  /\ res' = [res EXCEPT ![v] = again]
         /\ Answer(v, Ok(StatResponse(TotalOf(again))))
  /\ UNCHANGED <<db, reachable, sitestat, visit, call, total>>
  /\ UNCHANGED importVars

AddVisit(v) == AddVisit_Update(v) \/ AddVisit_Return(v)

\* --------------------------------------- track_visit (src/backend/main.py)
\* path = "/"; if payload and getattr(payload, "path", None): path = payload.path
PathOf(payload) ==
  IF payload # NoPayload /\ TruthyStr(payload[1]) THEN payload[1] ELSE <<"/">>

\* try: create_document("visit", {...}) except Exception: pass
TrackVisit_Create(v) ==
  /\ vpc[v] = "start" /\ call[v].route = "track_visit"
  /\ visit' = IF reachable
              THEN Append(visit, [path |-> PathOf(call[v].payload), user_agent |-> call[v].ua])
              ELSE visit
  /\ vpc' = [vpc EXCEPT ![v] = "return"]
  /\ UNCHANGED <<db, reachable, sitestat, call, res, total, reply>>
  /\ UNCHANGED importVars

\* return {"ok": True}
TrackVisit_Return(v) ==
  /\ vpc[v] = "return" /\ call[v].route = "track_visit"
  /\ Answer(v, Ok([ok |-> TRUE]))
  /\ UNCHANGED <<db, reachable, sitestat, visit, call, res, total>>
  /\ UNCHANGED importVars

TrackVisit(v) == TrackVisit_Create(v) \/ TrackVisit_Return(v)

\* --------------------------------------------- stats (src/backend/main.py)
\* try: total = collection("visit").estimated_document_count()
\* except Exception: total = 0
Stats_Count(v) ==
  /\ vpc[v] = "start" /\ call[v].route = "stats"
  /\ total' = [total EXCEPT ![v] = IF reachable THEN Len(visit) ELSE 0]
  /\ vpc' = [vpc EXCEPT ![v] = "return"]
  /\ UNCHANGED <<db, reachable, sitestat, visit, call, res, reply>>
  /\ UNCHANGED importVars

\* return {"total_visits": total}
Stats_Return(v) ==
  /\ vpc[v] = "return" /\ call[v].route = "stats"
  /\ Answer(v, Ok([total_visits |-> total[v]]))
  /\ UNCHANGED <<db, reachable, sitestat, visit, call, res, total>>
  /\ UNCHANGED importVars

Stats(v) == Stats_Count(v) \/ Stats_Return(v)

\* No stats or visit request is made.
IdleStore ==
  /\ db = "None" /\ reachable = FALSE
  /\ sitestat = NoDoc /\ visit = << >>
  /\ vpc = [v \in Visitors |-> "absent"]
  /\ call = [v \in Visitors |-> NoCall]
  /\ res = [v \in Visitors |-> NoDoc]
  /\ total = [v \in Visitors |-> 0]
  /\ reply = [v \in Visitors |-> << >>]

\* ------------------------------------------------------ specifications
InitLocals ==
  /\ gets = [r \in Reqs |-> 0]
  /\ resp = [r \in Reqs |-> << >>]
  /\ title = [r \in Reqs |-> None]
  /\ description = [r \in Reqs |-> None]
  /\ blocks = [r \in Reqs |-> << >>]
  /\ scan = [r \in Reqs |-> 0]
  /\ highlights = [r \in Reqs |-> << >>]
  /\ walk = [r \in Reqs |-> 0]
  /\ current = [r \in Reqs |-> NoCurrent]
  /\ sections = [r \in Reqs |-> << >>]
  /\ links = [r \in Reqs |-> << >>]
  /\ instagram = [r \in Reqs |-> None]
  /\ whatsapp = [r \in Reqs |-> None]
  /\ email = [r \in Reqs |-> None]
  /\ xlink = [r \in Reqs |-> None]
  /\ anchors = [r \in Reqs |-> << >>]
  /\ seen = [r \in Reqs |-> 0]
  /\ data = [r \in Reqs |-> NoData]
  /\ response = [r \in Reqs |-> << >>]

\* The requests a client can make: the route and what its URL leads to.
Requests ==
  { [endpoint |-> "content", upstream |-> u] : u \in ContentUpstreams }
    \cup { [endpoint |-> ep, upstream |-> u] :
             ep \in {"contacts", "backend"}, u \in ContactUpstreams }

\* One import request.
Init ==
  /\ \E q \in Requests :
       /\ pc = [r \in Reqs |-> IF r = 1 THEN "fetch" ELSE "absent"]
       /\ endpoint = [r \in Reqs |-> IF r = 1 THEN q.endpoint ELSE "none"]
       /\ upstream = [r \in Reqs |-> IF r = 1 THEN q.upstream ELSE NoRequest]
  /\ InitLocals
  /\ IdleStore

Next == \E r \in Reqs : ImportContent(r) \/ ImportContacts(r) \/ BackendContacts(r)

Spec == Init /\ [][Next]_vars

\* Two concurrent import requests, each on a page of at most MaxPairBlocks
\* tags (a heading, a list item or a long paragraph each) or of at most one
\* anchor, or on a URL that times out.
PairKinds ==
  { [name |-> "h2", words |-> 1], [name |-> "li", words |-> 1],
    [name |-> "p", words |-> HighlightWords + 1] }

PairTags ==
  { TagsOf(ks) : ks \in UNION { [1..m -> PairKinds] : m \in 0..MaxPairBlocks } }

PairAnchors ==
  { << >>, << <<<<"h","t","t","p","s",":","/","/","i","n","s","t","a","g","r","a","m",".","c","o","m","/","x">>>> >>, << <<<<"m","a","i","l","t","o",":","a","@","b",".","c","o","m","?","s","u","b","j","e","c","t","=","h","i">>>> >> }

PairRequests ==
  { [endpoint |-> "content", upstream |-> Answered(200, ContentPage(PlainHead, t))] :
      t \in PairTags }
    \cup { [endpoint |-> ep, upstream |-> Answered(200, ContactPage(as))] :
             ep \in {"contacts", "backend"}, as \in PairAnchors }
    \cup { [endpoint |-> "content", upstream |-> Raised("ReadTimeout")] }

InitPair ==
  /\ \E q1 \in PairRequests, q2 \in PairRequests :
       /\ pc = [r \in Reqs |-> "fetch"]
       /\ endpoint = [r \in Reqs |-> IF r = 1 THEN q1.endpoint ELSE q2.endpoint]
       /\ upstream = [r \in Reqs |-> IF r = 1 THEN q1.upstream ELSE q2.upstream]
  /\ InitLocals
  /\ IdleStore

SpecPair == InitPair /\ [][Next]_vars

\* The store as the requests find it: absent (db is None), present with its
\* server not answering, or present and answering, then with no counter
\* document yet, with one that lacks the field, or with one that counts 5.
Stores ==
  { [db |-> "None", reachable |-> FALSE, sitestat |-> NoDoc],
    [db |-> "Database", reachable |-> FALSE, sitestat |-> NoDoc] }
    \cup { [db |-> "Database", reachable |-> TRUE, sitestat |-> d] :
             d \in {NoDoc, SiteStat(<< >>), SiteStat(<<5>>)} }

\* No import request is made.
IdleImports ==
  /\ pc = [r \in Reqs |-> "absent"]
  /\ endpoint = [r \in Reqs |-> "none"]
  /\ upstream = [r \in Reqs |-> NoRequest]
  /\ InitLocals

\* MaxVisitors concurrent requests to the stats and visit routes.
InitStore ==
  /\ IdleImports
  /\ \E s \in Stores :
       /\ db = s.db /\ reachable = s.reachable /\ sitestat = s.sitestat
  /\ visit = << >>
  /\ vpc = [v \in Visitors |-> "start"]
  /\ call \in [Visitors -> Calls]
  /\ res = [v \in Visitors |-> NoDoc]
  /\ total = [v \in Visitors |-> 0]
  /\ reply = [v \in Visitors |-> << >>]

NextStore == \E v \in Visitors : GetStats(v) \/ AddVisit(v) \/ TrackVisit(v) \/ Stats(v)

SpecStore == InitStore /\ [][NextStore]_vars

\* ------------------------------------------------------------ claims
Answered200(r) == response[r] # << >> /\ response[r][1].status = 200

Body(r) == response[r][1].body[1]

\* C1: the outline import_content returns has at most 10 sections and at
\* most 6 highlights, and each of its sections has at most 8 points.
C1_OutlineBounded ==
  \A r \in Reqs :
    (endpoint[r] = "content" /\ Answered200(r)) =>
      /\ Len(Body(r).sections) <= MaxSections
      /\ Len(Body(r).highlights) <= MaxHighlights
      /\ \A k \in 1..Len(Body(r).sections) : Len(Body(r).sections[k].points) <= MaxPoints

\* C1 witness: a page with more headings than 10, more highlight candidates
\* than 6 and a section that collected more than 8 points has been answered.
C1_Witness ==
  /\ endpoint[1] = "content" /\ Answered200(1)
  /\ Len(sections[1]) > MaxSections
  /\ Len(current[1][1].points) = 0
  /\ Cardinality({k \in 1..Len(blocks[1]) : blocks[1][k].tag = "li"}) > MaxPoints
  /\ Cardinality({k \in 1..Len(blocks[1]) : blocks[1][k].tag = "h2"}) > MaxHighlights
  /\ Len(Body(1).sections) = MaxSections
  /\ Len(Body(1).highlights) = MaxHighlights
  /\ Len(Body(1).sections[1].points) = MaxPoints

\* The block the section loop of request r handles next.
NextBlock(r) == blocks[r][walk[r] + 1]

\* C2 (general part): in the section loop, whenever a current section
\* exists, a list item, and a paragraph that does not become the subtitle,
\* has its text appended to current.points.
C2_Appended ==
  \A r \in Reqs :
    (ImportContent_SectionStep(r) /\ current[r] # NoCurrent) =>
      /\ NextBlock(r).tag = "li" =>
           current'[r][1].points = Append(current[r][1].points, NextBlock(r).text)
      /\ (NextBlock(r).tag = "p" /\ current'[r][1].subtitle = current[r][1].subtitle) =>
           current'[r][1].points = Append(current[r][1].points, NextBlock(r).text)

FastReliable ==
  << [tag |-> "h2", text |-> Services], [tag |-> "p", text |-> WeBuild],
     [tag |-> "li", text |-> <<"F","a","s","t">>], [tag |-> "li", text |-> <<"R","e","l","i","a","b","l","e">>] >>

\* C2 (scenario): the Services document yields one section with the
\* paragraph as subtitle and the two list items as points.
C2_Scenario ==
  \A r \in Reqs :
    (endpoint[r] = "content" /\ Answered200(r) /\ blocks[r] = FastReliable) =>
      Body(r).sections =
        << ContentSection(Services, WeBuild, << <<"F","a","s","t">>, <<"R","e","l","i","a","b","l","e">> >>) >>

\* C2: every list item and non-subtitle paragraph met under a current
\* section is appended to its points, and the Services document yields
\* the points Fast, Reliable.
C2_PointsCollected == [][C2_Appended]_vars /\ []C2_Scenario

IsHeading(b) == b.tag \in {"h2", "h3"}

\* The titles the claim expects for a block sequence: the fallback title when
\* a paragraph or list item comes before the first h2/h3, then every h2/h3.
ExpectedTitles(bs) ==
  LET heads == {k \in 1..Len(bs) : IsHeading(bs[k])}
      early == {k \in 1..Len(bs) : bs[k].tag \in {"p", "li"} /\ \A h \in heads : k < h}
      first == CHOOSE k \in early : \A m \in early : k <= m
      fallback == IF early = {} THEN << >>
                  ELSE IF bs[first].tag = "p" THEN <<bs[first].text>>
                  ELSE << <<"H","i","g","h","l","i","g","h","t","s">> >>
      headings == SelectSeq(bs, IsHeading)
  IN  fallback \o [k \in 1..Len(headings) |-> headings[k].text]

TitlesOf(secs) == [k \in 1..Len(secs) |-> secs[k].title]

\* C7: the sections built are, in document order, one fallback section if a
\* paragraph or list item precedes the first h2/h3 and then one section per
\* h2/h3 block; the response carries the first 10 of them, in that order.
C7_SectionOrder ==
  \A r \in Reqs :
    endpoint[r] = "content" =>
      /\ pc[r] \in {"limit", "return", "done"} /\ resp[r] # << >> =>
           TitlesOf(sections[r]) = ExpectedTitles(blocks[r])
      /\ Answered200(r) =>
           /\ TitlesOf(Body(r).sections) = Take(ExpectedTitles(blocks[r]), MaxSections)
           /\ \A k \in 1..Len(Body(r).sections) : Body(r).sections[k] = sections[r][k]

\* C7 witness: an answered page that opens with a list item and has more
\* than 10 headings.
C7_Witness ==
  /\ endpoint[1] = "content" /\ Answered200(1)
  /\ blocks[1] # << >> /\ blocks[1][1].tag = "li"
  /\ Len(SelectSeq(blocks[1], IsHeading)) > MaxSections
  /\ Body(1).sections[1].title = <<"H","i","g","h","l","i","g","h","t","s">>
  /\ Body(1).sections[2].title = SelectSeq(blocks[1], IsHeading)[1].text

JustWelcome == << [tag |-> "p", text |-> Welcome] >>

\* C8 (step): a paragraph met while there is no current section starts a
\* section titled with its text, without subtitle and with no points.
C8_Starts ==
  \A r \in Reqs :
    (ImportContent_SectionStep(r) /\ current[r] = NoCurrent /\ NextBlock(r).tag = "p") =>
      current'[r] = << ContentSection(NextBlock(r).text, None, << >>) >>

\* C8 (scenario): the page whose only block is the Welcome paragraph yields
\* exactly one section, titled with it and without points.
C8_Scenario ==
  \A r \in Reqs :
    (endpoint[r] = "content" /\ Answered200(r) /\ blocks[r] = JustWelcome) =>
      Body(r).sections = << ContentSection(Welcome, None, << >>) >>

\* C8: a paragraph met with no current section becomes a section's title,
\* whatever its word count, and the Welcome page yields that one section.
C8_ParagraphTitle == [][C8_Starts]_vars /\ []C8_Scenario

\* C8 witness: the Welcome page has been answered with its one section.
C8_Witness ==
  /\ endpoint[1] = "content" /\ Answered200(1) /\ blocks[1] = JustWelcome
  /\ Len(Body(1).sections) = 1
  /\ Body(1).sections[1].title = Welcome

\* A block the claim counts as a highlight candidate.
Qualifies(b) ==
  b.tag \in {"h1", "h2"} \/ (b.tag = "p" /\ WordCount(b.text) > HighlightWords)

\* Highlight h was made from block b.
MadeFrom(h, b) ==
  /\ h.text = None
  /\ Take(h.title, HighlightChars) = Take(b.text, HighlightChars)
  /\ Len(b.text) <= HighlightChars => h.title = b.text

\* C9: once the highlight loop is over, highlights holds, in document order,
\* the first up-to-6 qualifying blocks of the first 40 blocks; the loop
\* stopped at the 6th of them, and no later block contributed.
C9_Highlights ==
  \A r \in Reqs :
    (endpoint[r] = "content" /\ pc[r] \in {"sections", "limit", "return", "done"}
       /\ resp[r] # << >>) =>
      LET first40 == Take(blocks[r], HighlightWindow)
          hits == {k \in 1..Len(first40) : Qualifies(first40[k])}
          cands == SelectSeq(first40, Qualifies)
          n == IF Len(cands) < MaxHighlights THEN Len(cands) ELSE MaxHighlights
      IN  /\ Len(highlights[r]) = n
          /\ \A k \in 1..n : MadeFrom(highlights[r][k], cands[k])
          /\ scan[r] = IF Len(cands) < MaxHighlights THEN Len(first40)
                       ELSE CHOOSE k \in hits :
                              Cardinality({m \in hits : m <= k}) = MaxHighlights
          /\ Answered200(r) => Body(r).highlights = highlights[r]

\* C9 witness: an answered page whose 41st block qualifies while fewer than
\* 6 of its first 40 do.
C9_Witness ==
  /\ endpoint[1] = "content" /\ Answered200(1)
  /\ Len(blocks[1]) > HighlightWindow
  /\ Qualifies(blocks[1][HighlightWindow + 1])
  /\ Qualifies(blocks[1][1])
  /\ Len(Body(1).highlights) = 1

\* The request's fetch has been attempted.
Fetched(r) == pc[r] \notin {"absent", "fetch"}

\* C3: a request ends with a result (200) or with the fetch error (400, and
\* only when the fetch failed); no fetched document makes it end otherwise.
C3_ResultOrFetchError ==
  \A r \in Reqs :
    response[r] # << >> =>
      \/ response[r][1].status = 200 /\ ~FetchRaises(upstream[r])
      \/ response[r][1].status = 400 /\ FetchRaises(upstream[r])

\* No handler local of request r has been touched: nothing was parsed or
\* extracted.
Untouched(r) ==
  /\ resp[r] = << >> /\ title[r] = None /\ description[r] = None
  /\ blocks[r] = << >> /\ highlights[r] = << >> /\ scan[r] = 0 /\ walk[r] = 0
  /\ current[r] = NoCurrent /\ sections[r] = << >>
  /\ links[r] = << >> /\ instagram[r] = None /\ whatsapp[r] = None
  /\ email[r] = None /\ xlink[r] = None
  /\ anchors[r] = << >> /\ seen[r] = 0 /\ data[r] = NoData

\* The request has been answered 400 with the upstream cause in the detail,
\* after one GET and without any parsing.
Answered400(r) ==
  /\ pc[r] = "done" /\ gets[r] = 1
  /\ response[r] # << >> /\ response[r][1].status = 400
  /\ response[r][1].detail[2] = upstream[r].cause
  /\ response[r][1].detail[3] = upstream[r].status_code
  /\ Untouched(r)

\* The fetch failed as the claim words it: no response, or a non-2xx status.
FailedNon2xx(u) ==
  u.kind = "exception" \/ (u.kind = "response" /\ ~(200 <= u.status_code /\ u.status_code <= 299))

Failed4xx5xx(u) ==
  u.kind = "exception" \/ (u.kind = "response" /\ u.status_code \in 400..599)

Returned(r) ==
  IF endpoint[r] = "contacts"
  THEN ContactSet(instagram[r], whatsapp[r], email[r], xlink[r])
  ELSE ContactSet(Field(data[r].instagram), Field(data[r].whatsapp),
                  Field(data[r].email), Field(data[r].x))

AtReturn(r) ==
  endpoint[r] \in {"contacts", "backend"} /\ resp[r] # << >> /\ pc[r] \in {"return", "done"}

\* The non-empty hrefs of the fetched page, in document order.
PageHrefs(r) ==
  LET as == upstream[r].page[1].anchors
      kept == SelectSeq(as, LAMBDA a : a # << >> /\ a[1] # << >>)
  IN  [k \in 1..Len(kept) |-> kept[k][1]]

\* The categories and their patterns, as the specification words them.
Categories == {"instagram", "whatsapp", "email", "x"}

Matches(c, h) ==
  LET low == Lower(h)
  IN  CASE c = "instagram" -> Contains(low, <<"i","n","s","t","a","g","r","a","m",".","c","o","m","/">>)
        [] c = "whatsapp" -> \/ Contains(low, <<"w","a",".","m","e","/">>)
                             \/ Contains(low, <<"a","p","i",".","w","h","a","t","s","a","p","p",".","c","o","m","/">>)
                             \/ Contains(low, <<"w","h","a","t","s","a","p","p",".","c","o","m","/","s","e","n","d">>)
        [] c = "email" -> StartsWith(low, <<"m","a","i","l","t","o",":">>)
        [] c = "x" -> Contains(low, <<"t","w","i","t","t","e","r",".","c","o","m","/">>) \/ Contains(low, <<"x",".","c","o","m","/">>)

\* The address of a mailto href: the 7-character prefix and everything from
\* the first "?" on removed.
Address(h) == BeforeFirst(SubSeq(h, 8, Len(h)), "?")

ExpectedEmail(hs) ==
  LET hit == {k \in 1..Len(hs) : Matches("email", hs[k])}
  IN  IF hit = {} THEN None ELSE Address(hs[CHOOSE k \in hit : \A m \in hit : k <= m])

\* C5: the email a contacts handler returns is the address of the first href
\* that begins with mailto: (in any case), without prefix and query string;
\* None when there is no such href.
C5_EmailNormalized ==
  \A r \in Reqs : AtReturn(r) => Returned(r).email = ExpectedEmail(PageHrefs(r))

\* The value a handler returns for category c when it picks href h.
AsReturned(r, c, h) ==
  IF endpoint[r] = "contacts"
  THEN IF c = "email" THEN NormalizeEmail(h) ELSE h
  ELSE IF c = "email" THEN Remove(Strip(h), <<"m","a","i","l","t","o",":">>) ELSE Strip(h)

\* C6: when the hrefs at positions i < j both match a category, the handler
\* does not return the href at position j for it (told apart from the earlier
\* hrefs by the value it would be returned as).
C6_FirstMatchWins ==
  \A r \in Reqs :
    AtReturn(r) =>
      LET hs == PageHrefs(r)
      IN  \A c \in Categories : \A j \in 1..Len(hs) :
            ( /\ \E i \in 1..(j - 1) : Matches(c, hs[i]) /\ Matches(c, hs[j])
              /\ \A m \in 1..(j - 1) : AsReturned(r, c, hs[m]) # AsReturned(r, c, hs[j]) )
            => Returned(r)[c] # AsReturned(r, c, hs[j])

RECURSIVE HighlightsAlone(_, _, _)
\* The highlight loop run to its end on the window w, from position k.
HighlightsAlone(hs, w, k) ==
  IF k >= Len(w) THEN hs
  ELSE LET more == hs \o HighlightOf(w[k + 1])
       IN  IF HighlightsFull(more) THEN more ELSE HighlightsAlone(more, w, k + 1)

RECURSIVE SectionsAlone(_, _, _, _)
\* The section loop run to its end on the blocks bs, from position k.
SectionsAlone(secs, cur, bs, k) ==
  IF k >= Len(bs)
  THEN IF NonEmpty(cur) THEN Append(secs, cur[1]) ELSE secs
  ELSE SectionsAlone(WalkSections(secs, cur, bs[k + 1]), WalkCurrent(cur, bs[k + 1]), bs, k + 1)

RECURSIVE DataAlone(_, _, _)
\* The anchor loop of the backend revision run to its end, from position k.
DataAlone(d, as, k) ==
  IF k >= Len(as) THEN d ELSE DataAlone(ScanAnchor(d, as[k + 1]), as, k + 1)

\* The answer of a handler that serves the request alone, computed from the
\* request's own upstream and nothing else.
Alone(ep, u) ==
  IF FetchRaises(u)
  THEN HTTPException(400, IF ep = "backend" THEN "Failed to fetch source: "
                          ELSE "Failed to fetch URL: ", u)
  ELSE LET page == u.page[1] IN
    IF ep = "content"
    THEN LET bs == CollectBlocks(page.tags)
             secs == SectionsAlone(<< >>, NoCurrent, bs, 0)
         IN  Ok(ContentResponse(PageTitle(page), PageDescription(page),
                                HighlightsAlone(<< >>, Window(bs), 0),
                                LimitSections([k \in 1..Len(secs) |-> LimitPoints(secs[k])])))
    ELSE IF ep = "contacts"
    THEN LET ls == HrefsOf(page.anchors)
         IN  Ok(ContactSet(FirstOf(ls, {k \in 1..Len(ls) : IsInstagram(ls[k])}),
                           FirstOf(ls, {k \in 1..Len(ls) : IsWhatsapp(ls[k])}),
                           NormalizeEmail(FirstOf(ls, {k \in 1..Len(ls) : IsMailto(ls[k])})),
                           FirstOf(ls, {k \in 1..Len(ls) : IsX(ls[k])})))
    ELSE LET d == DataAlone(NoData, WithHref(page.anchors), 0)
         IN  IF ValidContacts(d)
             THEN Ok(ContactSet(Field(d.instagram), Field(d.whatsapp), Field(d.email),
                                Field(d.x)))
             ELSE ResponseValidationError

\* C10: under every interleaving of two requests, each is answered as if it
\* were served alone, and two requests for the same route and document get
\* identical answers.
C10_RequestLocal ==
  /\ \A r \in Reqs : pc[r] = "done" => response[r] = << Alone(endpoint[r], upstream[r]) >>
  /\ (pc[1] = "done" /\ pc[2] = "done" /\ endpoint[1] = endpoint[2]
        /\ upstream[1] = upstream[2]) => response[1] = response[2]

\* C10 witness: two concurrent import-content requests for the same document,
\* whose one section collected two points, have both been answered.
C10_Witness ==
  /\ pc[1] = "done" /\ pc[2] = "done"
  /\ endpoint[1] = "content" /\ endpoint[2] = "content"
  /\ upstream[1] = upstream[2]
  /\ Answered200(1) /\ Answered200(2)
  /\ Len(Body(1).sections) = 1
  /\ Len(Body(2).sections[1].points) = 2

\* The position, among the first k blocks, of the block that started the
\* section current after them: the last h2/h3, or else the first paragraph
\* or list item; 0 when no section has been started.
StartOf(bs, k) ==
  LET heads == {j \in 1..k : IsHeading(bs[j])}
      early == {j \in 1..k : bs[j].tag \in {"p", "li"}}
  IN  IF heads # {} THEN CHOOSE j \in heads : \A m \in heads : m <= j
      ELSE IF early # {} THEN CHOOSE j \in early : \A m \in early : j <= m
      ELSE 0

\* The current section has, after the first k blocks, received a block that
\* the claim counts as a point: the list item that started it, or a later
\* paragraph or list item that is not its subtitle.
HasPointBlock(bs, k, cur) ==
  \E j \in 1..k :
    /\ j >= StartOf(bs, k)
    /\ \/ j = StartOf(bs, k) /\ bs[j].tag = "li"
       \/ j > StartOf(bs, k) /\ bs[j].tag \in {"p", "li"} /\ bs[j].text # cur.subtitle

\* C12 (step): a paragraph becomes the subtitle only when the subtitle is
\* unset, the paragraph has more than 4 words and no earlier block of the
\* section was treated as a point.
C12_Step ==
  \A r \in Reqs :
    (ImportContent_SectionStep(r) /\ current[r] # NoCurrent /\ NextBlock(r).tag = "p"
       /\ current'[r][1].subtitle # current[r][1].subtitle) =>
      /\ current[r][1].subtitle = None
      /\ WordCount(NextBlock(r).text) > SubtitleWords
      /\ ~HasPointBlock(blocks[r], walk[r], current[r][1])

ShortThenLong ==
  << [tag |-> "h2", text |-> About], [tag |-> "p", text |-> Hello],
     [tag |-> "p", text |-> WeBuild] >>

\* C12 (scenario): a heading, a one-word paragraph and a seven-word paragraph
\* yield one section without subtitle whose points are the two paragraphs.
C12_Scenario ==
  \A r \in Reqs :
    (endpoint[r] = "content" /\ Answered200(r) /\ blocks[r] = ShortThenLong) =>
      Body(r).sections = << ContentSection(About, None, << Hello, WeBuild >>) >>

\* C12: a paragraph becomes the current section's subtitle only if the
\* subtitle is unset, it has more than 4 words and the section has received
\* no point-producing block yet; the About document yields no subtitle and
\* the points Hello, We build...
C12_SubtitleFirstOnly == [][C12_Step]_vars /\ []C12_Scenario

\* The blocks bs without its h1 blocks.
WithoutH1(bs) == SelectSeq(bs, LAMBDA b : b.tag # "h1")

RECURSIVE WalkAlone(_, _, _, _)
\* sections and current after the section loop has handled the blocks bs
\* from position k on.
WalkAlone(secs, cur, bs, k) ==
  IF k >= Len(bs) THEN [sections |-> secs, current |-> cur]
  ELSE WalkAlone(WalkSections(secs, cur, bs[k + 1]), WalkCurrent(cur, bs[k + 1]), bs, k + 1)

\* C13: h1 blocks have no effect on the section walk: after any number of
\* blocks, sections and current are what the walk over the same blocks
\* without the h1 blocks gives, and the sections returned are those returned
\* for the page with its h1 blocks removed.
C13_H1Skipped ==
  \A r \in Reqs :
    (endpoint[r] = "content" /\ resp[r] # << >>) =>
      /\ pc[r] \in {"sections", "limit", "return", "done"} =>
           LET seenBlocks == Take(blocks[r], walk[r])
               alone == WalkAlone(<< >>, NoCurrent, WithoutH1(seenBlocks), 0)
           IN  /\ current[r] = alone.current
               /\ pc[r] = "sections" => sections[r] = alone.sections
      /\ Answered200(r) =>
           LET secs == SectionsAlone(<< >>, NoCurrent, WithoutH1(blocks[r]), 0)
           IN  Body(r).sections =
                 LimitSections([k \in 1..Len(secs) |-> LimitPoints(secs[k])])

\* C13 witness: an answered page with an h1 between the two list items of
\* its one section.
C13_Witness ==
  /\ endpoint[1] = "content" /\ Answered200(1)
  /\ Len(blocks[1]) = 3
  /\ blocks[1][1].tag = "li" /\ blocks[1][2].tag = "h1" /\ blocks[1][3].tag = "li"
  /\ Body(1).sections =
       << ContentSection(<<"H","i","g","h","l","i","g","h","t","s">>, None, <<blocks[1][1].text, blocks[1][3].text>>) >>

\* The texts of the paragraphs and list items among blocks a..b of bs, in
\* document order.
PointTexts(bs, a, b) ==
  LET run == SelectSeq(SubSeq(bs, a, b), LAMBDA x : x.tag \in {"p", "li"})
  IN  [k \in 1..Len(run) |-> run[k].text]

\* The position of the first h2/h3 of bs, or Len(bs) + 1 when it has none.
FirstHeading(bs) ==
  IF \E j \in 1..Len(bs) : IsHeading(bs[j])
  THEN CHOOSE j \in 1..Len(bs) : IsHeading(bs[j]) /\ \A m \in 1..(j - 1) : ~IsHeading(bs[m])
  ELSE Len(bs) + 1

\* The first block the section loop acts on (the first that is no h1) is a
\* list item: it is met while no current section exists.
OpensWithListItem(bs) ==
  \E j \in 1..Len(bs) : bs[j].tag = "li" /\ \A m \in 1..(j - 1) : bs[m].tag = "h1"

\* C14: a list item met while no current section exists starts the section
\* 'Highlights' with its text as the one point; every paragraph and list item
\* up to the next h2/h3 is appended to the points in document order, and the
\* section is returned first, with the first 8 of them.
C14_HighlightsSection ==
  \A r \in Reqs :
    (endpoint[r] = "content" /\ resp[r] # << >> /\ OpensWithListItem(blocks[r])) =>
      LET stop == FirstHeading(blocks[r])
          all == PointTexts(blocks[r], 1, stop - 1)
      IN  /\ (pc[r] = "sections" /\ 0 < walk[r] /\ walk[r] < stop
                /\ PointTexts(blocks[r], 1, walk[r]) # << >>) =>
               current[r] = << ContentSection(<<"H","i","g","h","l","i","g","h","t","s">>, None,
                                              PointTexts(blocks[r], 1, walk[r])) >>
          /\ pc[r] = "limit" => sections[r][1] = ContentSection(<<"H","i","g","h","l","i","g","h","t","s">>, None, all)
          /\ Answered200(r) =>
               Body(r).sections[1] =
                 ContentSection(<<"H","i","g","h","l","i","g","h","t","s">>, None, Take(all, MaxPoints))

\* C14 witness: an answered page that opens with a list item followed by
\* paragraphs and then a heading, more than 8 of them in all; the first
\* section returned has 8 points.
C14_Witness ==
  /\ endpoint[1] = "content" /\ Answered200(1)
  /\ OpensWithListItem(blocks[1])
  /\ Len(blocks[1]) > MaxPoints + 1
  /\ blocks[1][2].tag = "p"
  /\ FirstHeading(blocks[1]) <= Len(blocks[1])
  /\ Len(PointTexts(blocks[1], 1, FirstHeading(blocks[1]) - 1)) > MaxPoints
  /\ Len(Body(1).sections[1].points) = MaxPoints
  /\ Body(1).sections[1].points[2] = blocks[1][2].text

\* The title the claim gives the highlight of block b.
TitleFor(b) ==
  IF b.tag = "p" /\ Len(b.text) > HighlightChars
  THEN [k \in 1..(HighlightChars + 1) |->
          IF k <= HighlightChars THEN b.text[k] ELSE "U+2026"]
  ELSE b.text

\* C16: the highlight of a paragraph is titled with the paragraph's first
\* 120 characters, followed by one ellipsis character exactly when the text
\* is longer than 120 characters, so it never exceeds 121 characters; the
\* highlight of an h1 or h2 is titled with the whole heading text.
C16_HighlightTitle ==
  \A r \in Reqs :
    (endpoint[r] = "content" /\ resp[r] # << >>
       /\ pc[r] \in {"sections", "limit", "return", "done"}) =>
      LET cands == SelectSeq(Take(blocks[r], HighlightWindow), Qualifies)
          hs == IF Answered200(r) THEN Body(r).highlights ELSE highlights[r]
      IN  \A k \in 1..Len(hs) :
            /\ hs[k].title = TitleFor(cands[k])
            /\ cands[k].tag = "p" => Len(hs[k].title) <= HighlightChars + 1
            /\ (cands[k].tag = "p" /\ Len(cands[k].text) <= HighlightChars) =>
                 hs[k].title = cands[k].text
            /\ cands[k].tag \in {"h1", "h2"} => Len(hs[k].title) = Len(cands[k].text)

LongTexts ==
  << [tag |-> "h2", text |-> Chars121], [tag |-> "p", text |-> Chars120],
     [tag |-> "p", text |-> Chars121] >>

\* C16 witness: the page with a 121-character heading, a 120-character
\* paragraph and a 121-character paragraph has been answered with the
\* heading whole, the first paragraph whole and the second cut to 120
\* characters and an ellipsis.
C16_Witness ==
  /\ endpoint[1] = "content" /\ Answered200(1) /\ blocks[1] = LongTexts
  /\ Len(Body(1).highlights) = 3
  /\ Body(1).highlights[1].title = Chars121
  /\ Body(1).highlights[2].title = Chars120
  /\ Len(Body(1).highlights[3].title) = HighlightChars + 1
  /\ Body(1).highlights[3].title[HighlightChars + 1] = "U+2026"
  /\ Body(1).highlights[3].title[HighlightChars] = "s"

\* The number of sections the section loop has started over the first k
\* blocks of bs: one per h2/h3, and one more when a paragraph or list item
\* comes before the first of them.
Started(bs, k) ==
  LET heads == {j \in 1..k : IsHeading(bs[j])}
      early == {j \in 1..k : bs[j].tag \in {"p", "li"} /\ \A h \in heads : j < h}
  IN  Cardinality(heads) + (IF early = {} THEN 0 ELSE 1)

\* C17: throughout the section walk the current section, when there is one,
\* has a non-empty title, so the guard at emission holds for it; every
\* section started is emitted, none is dropped, and every section returned
\* has a non-empty title.
C17_TitledSections ==
  \A r \in Reqs :
    (endpoint[r] = "content" /\ resp[r] # << >>) =>
      /\ current[r] # NoCurrent =>
           /\ current[r][1].title # None /\ current[r][1].title # << >>
           /\ NonEmpty(current[r])
      /\ pc[r] = "sections" =>
           Len(sections[r]) + (IF current[r] = NoCurrent THEN 0 ELSE 1)
             = Started(blocks[r], walk[r])
      /\ pc[r] \in {"limit", "return", "done"} =>
           Len(sections[r]) = Started(blocks[r], Len(blocks[r]))
      /\ \A k \in 1..Len(sections[r]) :
           sections[r][k].title # None /\ sections[r][k].title # << >>
      /\ Answered200(r) =>
           \A k \in 1..Len(Body(r).sections) :
             Body(r).sections[k].title # None /\ Body(r).sections[k].title # << >>

\* C17 witness: a page with an empty heading between two headings has been
\* answered with two sections, neither holding a subtitle or a point.
C17_Witness ==
  /\ endpoint[1] = "content" /\ Answered200(1)
  /\ Len(upstream[1].page[1].tags) = 3
  /\ upstream[1].page[1].tags[2] = [name |-> "h2", text |-> << >>]
  /\ Len(blocks[1]) = 2 /\ IsHeading(blocks[1][1]) /\ IsHeading(blocks[1][2])
  /\ Len(Body(1).sections) = 2
  /\ \A k \in 1..2 : Body(1).sections[k] = ContentSection(blocks[1][k].text, None, << >>)

\* The first of the hrefs hs that matches category c, as the claim has it
\* returned: the href itself, or its address for the email category; None
\* when no href matches.
ExpectedField(c, hs) ==
  LET hit == {k \in 1..Len(hs) : Matches(c, hs[k])}
      first == hs[CHOOSE k \in hit : \A m \in hit : k <= m]
  IN  IF hit = {} THEN None
      ELSE IF c = "email" THEN Address(first) ELSE first

\* C15: each category is decided by its own patterns alone: a field is
\* non-null exactly when some href of the page matches the category's
\* patterns, an href that matches none of them never populates it, an href
\* that is the first match of several categories is returned in each, and
\* the response carries the fields so decided.
C15_OwnPatterns ==
  \A r \in Reqs :
    AtReturn(r) =>
      LET hs == PageHrefs(r)
      IN  /\ \A c \in Categories :
               /\ Returned(r)[c] # None <=> \E k \in 1..Len(hs) : Matches(c, hs[k])
               /\ Returned(r)[c] # None =>
                    \E k \in 1..Len(hs) :
                      /\ Matches(c, hs[k])
                      /\ Returned(r)[c] = IF c = "email" THEN Address(hs[k]) ELSE hs[k]
          /\ \A c \in Categories, d \in Categories :
               (c # "email" /\ d # "email" /\ ExpectedField(c, hs) # None
                  /\ ExpectedField(c, hs) = ExpectedField(d, hs)) =>
                 Returned(r)[c] = Returned(r)[d]
          /\ pc[r] = "done" =>
               /\ Answered200(r)
               /\ Body(r) = Returned(r)

\* The store is unavailable: absent, or its operations raise.
Unavailable == db = "None" \/ ~reachable

\* The default each stats and visit route answers with when it cannot use
\* the store.
DefaultOf(route) ==
  CASE route \in {"get_stats", "add_visit"} -> [name |-> "beequest", total_visits |-> 0]
    [] route = "stats" -> [total_visits |-> 0]
    [] route = "track_visit" -> [ok |-> TRUE]

\* C11: when the document store is unavailable, every stats and visit
\* request, on either revision, is answered 200 with its default value:
\* total_visits 0, or ok for the backend's visit route.
C11_DegradesToDefault ==
  \A v \in Visitors :
    (vpc[v] = "done" /\ Unavailable) =>
      /\ reply[v][1].status = 200
      /\ reply[v][1].body = << DefaultOf(call[v].route) >>

\* The store is available: present, and its operations succeed.
Available == db = "Database" /\ reachable

\* The add_visit requests whose store operation has been done.
Counted == {v \in Visitors : call[v].route = "add_visit" /\ vpc[v] \in {"return", "done"}}

\* C18 (steps): add_visit's one store operation raises the stored total by
\* exactly 1 and hands the handler the total after that increment, which the
\* handler then returns; get_stats never changes the counter; no step changes
\* the stored total otherwise.
C18_Step ==
  Available =>
    /\ \A v \in Visitors :
         /\ AddVisit_Update(v) =>
              /\ TotalOf(sitestat') = TotalOf(sitestat) + 1
              /\ TotalOf(res'[v]) = TotalOf(sitestat) + 1
         /\ AddVisit_Return(v) =>
              reply'[v] = << Ok([name |-> "beequest", total_visits |-> TotalOf(res[v])]) >>
         /\ GetStats(v) => sitestat' = sitestat
    /\ TotalOf(sitestat') =
         TotalOf(sitestat)
           + Cardinality({v \in Visitors : call[v].route = "add_visit"
                                             /\ vpc[v] = "start" /\ vpc'[v] = "return"})

\* C18 (states): the totals handed to the n add_visit requests done so far
\* are the n values that end at the stored total, each once: no increment is
\* lost and no two add_visit responses are equal; a get_stats response is a
\* total the counter has held.
C18_Totals ==
  Available =>
    LET n == Cardinality(Counted)
        now == TotalOf(sitestat)
    IN  /\ {TotalOf(res[v]) : v \in Counted} = (now - n + 1)..now
        /\ \A v \in Counted, w \in Counted : v # w => TotalOf(res[v]) # TotalOf(res[w])
        /\ \A v \in Counted :
             vpc[v] = "done" => reply[v][1].body[1].total_visits = TotalOf(res[v])
        /\ \A v \in Visitors :
             (call[v].route = "get_stats" /\ vpc[v] = "done") =>
               reply[v][1].body[1].total_visits \in (now - n)..now

====
